---- MODULE Spec2Model ----
(***************************************************************************)
(* A model of ichnaea/models/cell.py: the cell identity keys, the key      *)
(* normalisation functions to_cellkey / to_cellkey_psc, the query          *)
(* criterion builder join_cellkey, the five entity constructors and the    *)
(* OCIDCell bounding-box accessors.                                        *)
(***************************************************************************)
EXTENDS Integers, Sequences, FiniteSets, TLC

VARIABLES op, args, res, res2, repeated, clock, table, outcome

vars == <<op, args, res, res2, repeated, clock, table, outcome>>

(***************************************************************************)
(* Bounds of the model.                                                    *)
(***************************************************************************)
\* identity field values of keys and sources range over 0..MaxId
MaxId == 1
\* util.utcnow() returns values in 0..MaxClock
MaxClock == 1
\* psc values of the keys looked up in the Cell table range over 0..MaxPsc
MaxPsc == 1

\* Python's None, encoded as an integer outside every value range used
None == -9

IdValues == 0 .. MaxId

(***************************************************************************)
(* Identity key types (namedtuples): a kind and the tuple of values.       *)
(***************************************************************************)
CellAreaKeyFields == <<"radio", "mcc", "mnc", "lac">>
CellKeyFields == <<"radio", "mcc", "mnc", "lac", "cid">>
CellKeyPscFields == <<"radio", "mcc", "mnc", "lac", "cid", "psc">>

KeyFields(kind) ==
    CASE kind = "CellAreaKey" -> CellAreaKeyFields
      [] kind = "CellKey" -> CellKeyFields
      [] kind = "CellKeyPsc" -> CellKeyPscFields

Range(s) == {s[i] : i \in DOMAIN s}

Tuples(n) == [1 .. n -> IdValues]

\* the namedtuple constructors
CellAreaKey(radio, mcc, mnc, lac) ==
    [kind |-> "CellAreaKey", vals |-> <<radio, mcc, mnc, lac>>]

CellKey(radio, mcc, mnc, lac, cid) ==
    [kind |-> "CellKey", vals |-> <<radio, mcc, mnc, lac, cid>>]

CellKeyPsc(radio, mcc, mnc, lac, cid, psc) ==
    [kind |-> "CellKeyPsc", vals |-> <<radio, mcc, mnc, lac, cid, psc>>]

CellAreaKeys == {CellAreaKey(t[1], t[2], t[3], t[4]) : t \in Tuples(4)}
CellKeys == {CellKey(t[1], t[2], t[3], t[4], t[5]) : t \in Tuples(5)}
CellKeyPscs == {CellKeyPsc(t[1], t[2], t[3], t[4], t[5], t[6]) : t \in Tuples(6)}

\* hasattr(k, f) and k.f for a namedtuple k
HasAttr(k, f) == f \in Range(KeyFields(k.kind))

Attr(k, f) ==
    LET fs == KeyFields(k.kind)
    IN k.vals[CHOOSE i \in DOMAIN fs : fs[i] = f]

\* tuple equality: namedtuples compare as the tuples of their values
PyEq(k1, k2) == k1.vals = k2.vals

(***************************************************************************)
(* Sources of to_cellkey / to_cellkey_psc: a dict or an object with        *)
(* attributes, holding some of the six identity fields.                    *)
(***************************************************************************)
SourceFields == Range(CellKeyPscFields)

FieldMaps == UNION {[d -> IdValues] : d \in SUBSET SourceFields}

Sources == [shape : {"dict", "obj"}, fields : FieldMaps]

\* a namedtuple handed to to_cellkey is not a dict: its fields are attributes
AsSource(k) ==
    [shape |-> "obj",
     fields |-> [f \in Range(KeyFields(k.kind)) |-> Attr(k, f)]]

NoKey == [kind |-> "none", vals |-> <<>>]

Raised(err, f) == [status |-> err, key |-> NoKey, field |-> f]
Returned(k) == [status |-> "ok", key |-> k, field |-> ""]

\* the first of the fields, in evaluation order, that the source lacks
FirstMissing(obj, order) ==
    LET miss == {i \in DOMAIN order : order[i] \notin DOMAIN obj.fields}
    IN IF miss = {} THEN 0 ELSE CHOOSE i \in miss : \A j \in miss : i <= j

\* obj['f'] raises KeyError, obj.f raises AttributeError, at the first
\* field, in the order the call evaluates its arguments, that is missing
ToCellKey_swapped(obj) ==
    LET m == FirstMissing(obj, CellKeyFields)
    IN IF m # 0
       THEN Raised(IF obj.shape = "dict" THEN "KeyError" ELSE "AttributeError",
                   CellKeyFields[m])
       ELSE IF obj.shape = "dict"
            THEN Returned(CellKey(obj.fields["radio"], obj.fields["mcc"],
                                  obj.fields["mnc"], obj.fields["lac"],
                                  obj.fields["cid"]))
            ELSE Returned(CellKey(obj.fields["radio"], obj.fields["mcc"],
                                  obj.fields["mnc"], obj.fields["cid"],
                                  obj.fields["lac"]))

ToCellKey(obj) ==
    LET m == FirstMissing(obj, CellKeyFields)
    IN IF obj.shape = "dict"
       THEN IF m # 0 THEN Raised("KeyError", CellKeyFields[m])
            ELSE Returned(CellKey(obj.fields["radio"], obj.fields["mcc"],
                                  obj.fields["mnc"], obj.fields["lac"],
                                  obj.fields["cid"]))
       ELSE IF m # 0 THEN Raised("AttributeError", CellKeyFields[m])
            ELSE Returned(CellKey(obj.fields["radio"], obj.fields["mcc"],
                                  obj.fields["mnc"], obj.fields["lac"],
                                  obj.fields["cid"]))

ToCellKeyPsc_cidaspsc(obj) ==
    LET m == FirstMissing(obj, CellKeyPscFields)
    IN IF m # 0
       THEN Raised(IF obj.shape = "dict" THEN "KeyError" ELSE "AttributeError",
                   CellKeyPscFields[m])
       ELSE IF obj.shape = "dict"
            THEN Returned(CellKeyPsc(obj.fields["radio"], obj.fields["mcc"],
                                     obj.fields["mnc"], obj.fields["lac"],
                                     obj.fields["cid"], obj.fields["cid"]))
            ELSE Returned(CellKeyPsc(obj.fields["radio"], obj.fields["mcc"],
                                     obj.fields["mnc"], obj.fields["lac"],
                                     obj.fields["cid"], obj.fields["psc"]))

ToCellKeyPsc(obj) ==
    LET m == FirstMissing(obj, CellKeyPscFields)
    IN IF obj.shape = "dict"
       THEN IF m # 0 THEN Raised("KeyError", CellKeyPscFields[m])
            ELSE Returned(CellKeyPsc(obj.fields["radio"], obj.fields["mcc"],
                                     obj.fields["mnc"], obj.fields["lac"],
                                     obj.fields["cid"], obj.fields["psc"]))
       ELSE IF m # 0 THEN Raised("AttributeError", CellKeyPscFields[m])
            ELSE Returned(CellKeyPsc(obj.fields["radio"], obj.fields["mcc"],
                                     obj.fields["mnc"], obj.fields["lac"],
                                     obj.fields["cid"], obj.fields["psc"]))

(***************************************************************************)
(* join_cellkey(model, k): the criterion as a sequence of <<column, value>>*)
(* equalities.  A model class is described by what hasattr / getattr see:  *)
(* whether it has a cid attribute, and whether its psc attribute is        *)
(* missing, None or a column.                                              *)
(***************************************************************************)
Models == [cid : BOOLEAN, psc : {"absent", "none", "column"}]

CellModel == [cid |-> TRUE, psc |-> "column"]
CellAreaModel == [cid |-> FALSE, psc |-> "absent"]
CellBlacklistModel == [cid |-> TRUE, psc |-> "absent"]

\* getattr(model, 'psc', None) is not None
ModelHasPsc(model) == model.psc = "column"

BaseCriterion(k) ==
    <<(<<"radio", Attr(k, "radio")>>), (<<"mcc", Attr(k, "mcc")>>),
      (<<"mnc", Attr(k, "mnc")>>), (<<"lac", Attr(k, "lac")>>)>>

JoinCellKey_nomodelcheck(model, k) ==
    BaseCriterion(k)
      \o (IF k.kind = "CellKeyPsc" THEN <<(<<"psc", Attr(k, "psc")>>)>> ELSE <<>>)
      \o (IF model.cid /\ HasAttr(k, "cid")
          THEN <<(<<"cid", Attr(k, "cid")>>)>> ELSE <<>>)

JoinCellKey(model, k) ==
    LET criterion == BaseCriterion(k)
        withPsc == IF k.kind = "CellKeyPsc" /\ ModelHasPsc(model)
                   THEN criterion \o <<(<<"psc", Attr(k, "psc")>>)>>
                   ELSE criterion
    IN IF model.cid /\ HasAttr(k, "cid")
       THEN withPsc \o <<(<<"cid", Attr(k, "cid")>>)>>
       ELSE withPsc

(***************************************************************************)
(* Entities.  An entity is a function from its columns to values; a column *)
(* the constructor was given no value for reads as None.  Keyword          *)
(* arguments are a function from the names passed to their values.         *)
(***************************************************************************)
\* marks, in the choice of a call's arguments, a keyword that is not passed
Absent == -8

\* values a caller may pass for an integer column
Values == {None, -1, 0, 1}
\* values a caller may pass for created / modified / time
SuppliedTimes == {0}
\* True and False (Python's True == 1, False == 0)
Booleans == {0, 1}

Opt(S) == S \cup {Absent}

\* the keyword arguments of a call: the chosen values less the absent ones
Kw(choice) ==
    [f \in {g \in DOMAIN choice : choice[g] # Absent} |-> choice[f]]

CellColumns ==
    {"radio", "mcc", "mnc", "lac", "cid", "psc", "created", "modified",
     "range", "new_measures", "total_measures"}
OCIDCellColumns ==
    {"radio", "mcc", "mnc", "lac", "cid", "psc", "created", "modified",
     "range", "total_measures", "changeable"}
CellAreaColumns ==
    {"radio", "mcc", "mnc", "lac", "created", "modified",
     "range", "avg_cell_range", "num_cells"}
CellBlacklistColumns ==
    {"radio", "mcc", "mnc", "lac", "cid", "time", "count"}

\* not v, for the values above
Falsy(v) == v = None \/ v = 0

\* kw[f] = v
Put(kw, f, v) == [g \in DOMAIN kw \cup {f} |-> IF g = f THEN v ELSE kw[g]]

\* if f not in kw: kw[f] = v
IfAbsent_always(kw, f, v) == Put(kw, f, v)

IfAbsent(kw, f, v) == IF f \notin DOMAIN kw THEN Put(kw, f, v) ELSE kw

\* if f not in kw or not kw[f]: kw[f] = v
IfAbsentOrFalsy_absentonly(kw, f, v) == IfAbsent(kw, f, v)

IfAbsentOrFalsy(kw, f, v) ==
    IF f \notin DOMAIN kw \/ Falsy(kw[f]) THEN Put(kw, f, v) ELSE kw

\* the declarative constructor: every keyword becomes the column's value
ModelInit(columns, kw) ==
    [c \in columns |-> IF c \in DOMAIN kw THEN kw[c] ELSE None]

\* t1 and t2 are what the first and the second util.utcnow() call return
NewCell(kw, t1, t2) ==
    LET k1 == IfAbsent(kw, "created", t1)
        k2 == IfAbsent(k1, "modified", t2)
        k3 == IfAbsentOrFalsy(k2, "lac", 0)
        k4 == IfAbsentOrFalsy(k3, "cid", 0)
        k5 == IfAbsent(k4, "range", 0)
        k6 == IfAbsent(k5, "new_measures", 0)
        k7 == IfAbsent(k6, "total_measures", 0)
    IN ModelInit(CellColumns, k7)

NewOCIDCell(kw, t1, t2) ==
    LET k1 == IfAbsent(kw, "created", t1)
        k2 == IfAbsent(k1, "modified", t2)
        k3 == IfAbsentOrFalsy(k2, "lac", 0)
        k4 == IfAbsentOrFalsy(k3, "cid", 0)
        k5 == IfAbsent(k4, "range", 0)
        k6 == IfAbsent(k5, "total_measures", 0)
        k7 == IfAbsent(k6, "changeable", 1)
    IN ModelInit(OCIDCellColumns, k7)

NewCellArea_nonumcells(kw, t1, t2) ==
    LET k1 == IfAbsent(kw, "created", t1)
        k2 == IfAbsent(k1, "modified", t2)
        k3 == IfAbsent(k2, "range", 0)
        k4 == IfAbsent(k3, "avg_cell_range", 0)
    IN ModelInit(CellAreaColumns, k4)

NewCellArea(kw, t1, t2) ==
    LET k1 == IfAbsent(kw, "created", t1)
        k2 == IfAbsent(k1, "modified", t2)
        k3 == IfAbsent(k2, "range", 0)
        k4 == IfAbsent(k3, "avg_cell_range", 0)
        k5 == IfAbsent(k4, "num_cells", 0)
    IN ModelInit(CellAreaColumns, k5)

NewOCIDCellArea(kw, t1, t2) ==
    LET k1 == IfAbsent(kw, "created", t1)
        k2 == IfAbsent(k1, "modified", t2)
        k3 == IfAbsent(k2, "range", 0)
        k4 == IfAbsent(k3, "avg_cell_range", 0)
        k5 == IfAbsent(k4, "num_cells", 0)
    IN ModelInit(CellAreaColumns, k5)

NewCellBlacklist_overwritetime(kw, t1) ==
    LET k1 == Put(kw, "time", t1)
        k2 == IfAbsent(k1, "count", 1)
    IN ModelInit(CellBlacklistColumns, k2)

NewCellBlacklist(kw, t1) ==
    LET k1 == IfAbsent(kw, "time", t1)
        k2 == IfAbsent(k1, "count", 1)
    IN ModelInit(CellBlacklistColumns, k2)

(***************************************************************************)
(* Bounding box of an OCIDCell.  Latitudes and longitudes are fixed-point  *)
(* numbers of micro-degrees; self.range is in meters.                      *)
(***************************************************************************)
MetersPerDegree == 111320

\* division rounding toward zero: -(a / b) = (-a) / b, as for floats
TruncDiv(a, b) == IF a >= 0 THEN a \div b ELSE -((-a) \div b)

Micro(deg) == deg * 1000000

\* 1000 * cos(lat), for the latitudes of the model
CosMilli(lat) ==
    LET deg == TruncDiv(lat, 1000000)
    IN CASE deg = 0 -> 1000
         [] deg \in {37, -37} -> 799
         [] deg \in {60, -60} -> 500

MetersToLatDegrees(distance) == TruncDiv(distance * 1000000, MetersPerDegree)

MetersToLonDegrees(distance, lat) ==
    TruncDiv(MetersToLatDegrees(distance) * 1000, CosMilli(lat))

\* geocalc.add_meters_to_latitude and geocalc.add_meters_to_longitude
AddMetersToLatitude(lat, distance) == lat + MetersToLatDegrees(distance)

AddMetersToLongitude(lat, lon, distance) ==
    lon + MetersToLonDegrees(distance, lat)

Lats == {Micro(-60), Micro(0), Micro(37), Micro(60)}
Lons == {Micro(-122), Micro(0), Micro(179)}
Ranges == {0, 1, 500, 1000}

\* the OCIDCell properties
MinLat_plus(self) == AddMetersToLatitude(self.lat, self.range)

MinLat(self) == AddMetersToLatitude(self.lat, -self.range)

MaxLat(self) == AddMetersToLatitude(self.lat, self.range)

MinLon(self) == AddMetersToLongitude(self.lat, self.lon, -self.range)

MaxLon(self) == AddMetersToLongitude(self.lat, self.lon, self.range)

BoundingBox(self) ==
    [min_lat |-> MinLat(self), max_lat |-> MaxLat(self),
     min_lon |-> MinLon(self), max_lon |-> MaxLon(self)]

(***************************************************************************)
(* The Cell table and a caller that looks a key up with join_cellkey and   *)
(* inserts a new Cell when the lookup finds no row.                        *)
(***************************************************************************)
PrimaryKey_withpsc == {"radio", "mcc", "mnc", "lac", "cid", "psc"}

\* PrimaryKeyConstraint('radio', 'mcc', 'mnc', 'lac', 'cid')
PrimaryKey == {"radio", "mcc", "mnc", "lac", "cid"}

\* the row satisfies every equality of the criterion (column == None is
\* rendered IS NULL, so None matches a column that is NULL)
Matches(row, criterion) ==
    \A i \in DOMAIN criterion : row[criterion[i][1]] = criterion[i][2]

\* session.query(Cell).filter(*join_cellkey(Cell, k))
Lookup(rows, k) == {r \in rows : Matches(r, JoinCellKey(CellModel, k))}

\* the keys looked up: four cells of one network, with or without a psc
TableKeys ==
    {CellKey(0, 0, 0, lac, cid) : lac \in {0, 1}, cid \in {0, 1}}
      \cup {CellKeyPsc(0, 0, 0, k[1], k[2], k[3]) :
              k \in {0, 1} \X {0, 1} \X ({None} \cup (0 .. MaxPsc))}

\* Cell(radio=k.radio, ..., cid=k.cid[, psc=k.psc])
KeyKw(k) == [f \in Range(KeyFields(k.kind)) |-> Attr(k, f)]

\* the table rejects a row whose primary key a stored row has
Violates(rows, row) ==
    \E r \in rows : \A c \in PrimaryKey : r[c] = row[c]

(***************************************************************************)
(* Operations.                                                             *)
(***************************************************************************)
Constructors == {"Cell", "OCIDCell", "CellArea", "OCIDCellArea", "CellBlacklist"}

\* the result of operation o on arguments a, util.utcnow() returning t1, t2
Invoke(o, a, t1, t2) ==
    CASE o = "to_cellkey" -> ToCellKey(a)
      [] o = "to_cellkey_psc" -> ToCellKeyPsc(a)
      [] o = "to_cellkey_of_key" -> ToCellKey(AsSource(a))
      [] o = "to_cellkey_psc_of_key" -> ToCellKeyPsc(AsSource(a))
      [] o = "join_cellkey" -> JoinCellKey(a.model, a.k)
      [] o = "bounding_box" -> BoundingBox(a)
      [] o = "Cell" -> NewCell(a, t1, t2)
      [] o = "OCIDCell" -> NewOCIDCell(a, t1, t2)
      [] o = "CellArea" -> NewCellArea(a, t1, t2)
      [] o = "OCIDCellArea" -> NewOCIDCellArea(a, t1, t2)
      [] o = "CellBlacklist" -> NewCellBlacklist(a, t1)

\* what the last util.utcnow() of a call may return: time may pass in a call
Nows(o) ==
    IF o \in Constructors THEN {t \in {clock, clock + 1} : t <= MaxClock}
    ELSE {clock}

Call(o, a) ==
    \E t2 \in Nows(o) :
        LET r == Invoke(o, a, clock, t2)
        IN /\ op' = o
           /\ args' = a
           /\ res' = r
           /\ res2' = r
           /\ repeated' = FALSE
           /\ clock' = t2
           /\ UNCHANGED <<table, outcome>>

\* a call starts when the caller holds no result of an earlier one
Idle == op = "none"

DoToCellKey ==
    /\ Idle
    /\ \E obj \in Sources : Call("to_cellkey", obj)

DoToCellKeyPsc ==
    /\ Idle
    /\ \E obj \in Sources : Call("to_cellkey_psc", obj)

DoToCellKeyOfKey ==
    /\ Idle
    /\ \E k \in CellKeys \cup CellKeyPscs : Call("to_cellkey_of_key", k)

DoToCellKeyPscOfKey ==
    /\ Idle
    /\ \E k \in CellKeys \cup CellKeyPscs : Call("to_cellkey_psc_of_key", k)

DoJoinCellKey ==
    /\ Idle
    /\ \E model \in Models, k \in CellAreaKeys \cup CellKeys \cup CellKeyPscs :
           Call("join_cellkey", [model |-> model, k |-> k])

DoBoundingBox ==
    /\ Idle
    /\ \E lat \in Lats, lon \in Lons, r \in Ranges :
           Call("bounding_box", [lat |-> lat, lon |-> lon, range |-> r])

DoNewCell ==
    /\ Idle
    /\ \E created \in Opt(SuppliedTimes), modified \in Opt(SuppliedTimes),
          lac \in Opt(Values), cid \in Opt(Values), range \in Opt(Values),
          new_measures \in Opt(Values), total_measures \in Opt(Values) :
           Call("Cell", Kw([created |-> created, modified |-> modified,
                            lac |-> lac, cid |-> cid, range |-> range,
                            new_measures |-> new_measures,
                            total_measures |-> total_measures]))

DoNewOCIDCell ==
    /\ Idle
    /\ \E created \in Opt(SuppliedTimes), modified \in Opt(SuppliedTimes),
          lac \in Opt(Values), cid \in Opt(Values), range \in Opt(Values),
          total_measures \in Opt(Values), changeable \in Opt(Booleans) :
           Call("OCIDCell", Kw([created |-> created, modified |-> modified,
                                lac |-> lac, cid |-> cid, range |-> range,
                                total_measures |-> total_measures,
                                changeable |-> changeable]))

DoNewCellArea ==
    /\ Idle
    /\ \E created \in Opt(SuppliedTimes), modified \in Opt(SuppliedTimes),
          lac \in Opt(Values), range \in Opt(Values),
          avg_cell_range \in Opt(Values), num_cells \in Opt(Values) :
           Call("CellArea", Kw([created |-> created, modified |-> modified,
                                lac |-> lac, range |-> range,
                                avg_cell_range |-> avg_cell_range,
                                num_cells |-> num_cells]))

DoNewOCIDCellArea ==
    /\ Idle
    /\ \E created \in Opt(SuppliedTimes), modified \in Opt(SuppliedTimes),
          lac \in Opt(Values), range \in Opt(Values),
          avg_cell_range \in Opt(Values), num_cells \in Opt(Values) :
           Call("OCIDCellArea", Kw([created |-> created, modified |-> modified,
                                    lac |-> lac, range |-> range,
                                    avg_cell_range |-> avg_cell_range,
                                    num_cells |-> num_cells]))

DoNewCellBlacklist ==
    /\ Idle
    /\ \E time \in Opt(SuppliedTimes), count \in Opt(Values),
          lac \in Opt(Values), cid \in Opt(Values) :
           Call("CellBlacklist", Kw([time |-> time, count |-> count,
                                     lac |-> lac, cid |-> cid]))

\* time passes between two invocations
Tick ==
    /\ clock < MaxClock
    /\ clock' = clock + 1
    /\ UNCHANGED <<op, args, res, res2, repeated, table, outcome>>

\* a second invocation of the last operation with the same arguments
Repeat ==
    /\ op # "none"
    /\ ~repeated
    /\ \E t2 \in Nows(op) :
          /\ res2' = Invoke(op, args, clock, t2)
          /\ clock' = t2
    /\ repeated' = TRUE
    /\ UNCHANGED <<op, args, res, table, outcome>>

\* the caller drops the results it holds; the next call follows
Forget ==
    /\ op # "none"
    /\ op' = "none"
    /\ args' = <<>>
    /\ res' = <<>>
    /\ res2' = <<>>
    /\ repeated' = FALSE
    /\ UNCHANGED <<clock, table, outcome>>

\* look k up in the Cell table and insert a new Cell if no row matches
LookupThenInsert ==
    \E k \in TableKeys :
        LET row == NewCell(KeyKw(k), clock, clock)
        IN /\ IF Lookup(table, k) # {}
              THEN /\ outcome' = "found"
                   /\ table' = table
              ELSE IF Violates(table, row)
                   THEN /\ outcome' = "IntegrityError"
                        /\ table' = table
                   ELSE /\ outcome' = "inserted"
                        /\ table' = table \cup {row}
           /\ UNCHANGED <<op, args, res, res2, repeated, clock>>

Init ==
    /\ op = "none"
    /\ args = <<>>
    /\ res = <<>>
    /\ res2 = <<>>
    /\ repeated = FALSE
    /\ clock = 0
    /\ table = {}
    /\ outcome = "none"

Next ==
    \/ DoToCellKey
    \/ DoToCellKeyPsc
    \/ DoToCellKeyOfKey
    \/ DoToCellKeyPscOfKey
    \/ DoJoinCellKey
    \/ DoBoundingBox
    \/ DoNewCell
    \/ DoNewOCIDCell
    \/ DoNewCellArea
    \/ DoNewOCIDCellArea
    \/ DoNewCellBlacklist
    \/ Tick
    \/ Repeat
    \/ Forget

Spec == Init /\ [][Next]_vars

NextTable == LookupThenInsert

SpecTable == Init /\ [][NextTable]_vars

(***************************************************************************)
(* Properties.                                                             *)
(***************************************************************************)
Supplied(f) == f \in DOMAIN args

AbsentOrFalsy(f) == ~Supplied(f) \/ args[f] \in {None, 0}

OtherShape(obj) ==
    [obj EXCEPT !.shape = IF obj.shape = "dict" THEN "obj" ELSE "dict"]

\* C1: join_cellkey returns exactly radio, mcc, mnc, lac, then psc iff the key
\* is a CellKeyPsc and the model declares psc, then cid iff the model declares
\* cid and the key carries cid, each with the key's value for that field.
C1_JoinCellKeyCriterion ==
    op = "join_cellkey" =>
        LET k == args.k
            model == args.model
            base == <<(<<"radio", k.vals[1]>>), (<<"mcc", k.vals[2]>>),
                      (<<"mnc", k.vals[3]>>), (<<"lac", k.vals[4]>>)>>
            psc == IF k.kind = "CellKeyPsc" /\ model.psc = "column"
                   THEN <<(<<"psc", k.vals[6]>>)>> ELSE <<>>
            cid == IF model.cid /\ k.kind \in {"CellKey", "CellKeyPsc"}
                   THEN <<(<<"cid", k.vals[5]>>)>> ELSE <<>>
        IN res = base \o psc \o cid

C1_Witness ==
    /\ op = "join_cellkey"
    /\ args.k.kind = "CellKeyPsc"
    /\ args.model = CellModel
    /\ Len(res) = 6
    /\ args.k.vals[5] # args.k.vals[6]

\* C2: for a source holding the five required fields to_cellkey returns the
\* CellKey of those five fields, whatever else the source holds, and returns
\* the same for a dict and for an object; to_cellkey_psc likewise returns the
\* six-field key with psc copied, the same for both shapes.
C2_KeyFromSource ==
    /\ (op = "to_cellkey" /\ Range(CellKeyFields) \subseteq DOMAIN args.fields) =>
          /\ res.status = "ok"
          /\ res.key.kind = "CellKey"
          /\ res.key.vals = [i \in 1 .. 5 |-> args.fields[CellKeyFields[i]]]
          /\ ToCellKey(OtherShape(args)) = res
    /\ (op = "to_cellkey_psc" /\ Range(CellKeyPscFields) \subseteq DOMAIN args.fields) =>
          /\ res.status = "ok"
          /\ res.key.kind = "CellKeyPsc"
          /\ res.key.vals = [i \in 1 .. 6 |-> args.fields[CellKeyPscFields[i]]]
          /\ ToCellKeyPsc(OtherShape(args)) = res

C2_Witness ==
    /\ op = "to_cellkey_psc"
    /\ args.shape = "dict"
    /\ res.status = "ok"
    /\ res.key.vals[5] # res.key.vals[6]

\* C3: to_cellkey and to_cellkey_psc fail whenever a required field is absent
\* from the source, produce no key, and the error is the same one for a dict
\* and for an object.
C3_SameMissingFieldError ==
    /\ (op = "to_cellkey" /\ ~(Range(CellKeyFields) \subseteq DOMAIN args.fields)) =>
          /\ res.status # "ok"
          /\ res.key = NoKey
          /\ ToCellKey(OtherShape(args)).status = res.status
    /\ (op = "to_cellkey_psc"
          /\ ~(Range(CellKeyPscFields) \subseteq DOMAIN args.fields)) =>
          /\ res.status # "ok"
          /\ res.key = NoKey
          /\ ToCellKeyPsc(OtherShape(args)).status = res.status

\* C4: Cell(**kw) has lac and cid 0 when absent or falsy and the supplied
\* value otherwise; range, new_measures and total_measures 0 when absent and
\* exactly the supplied value otherwise; created and modified the UTC time of
\* the call when absent and the supplied value otherwise.
C4_CellDefaults ==
    [][(op = "none" /\ op' = "Cell") =>
         LET kw == args'
             e == res'
         IN /\ \A f \in {"lac", "cid"} :
                  e[f] = IF f \notin DOMAIN kw \/ kw[f] \in {None, 0}
                         THEN 0 ELSE kw[f]
            /\ \A f \in {"range", "new_measures", "total_measures"} :
                  e[f] = IF f \in DOMAIN kw THEN kw[f] ELSE 0
            /\ \A f \in {"created", "modified"} :
                  IF f \in DOMAIN kw THEN e[f] = kw[f]
                  ELSE e[f] \in clock .. clock']_vars

C4_Witness ==
    /\ op = "Cell"
    /\ args = <<>>
    /\ clock = 1
    /\ res["created"] = 1
    /\ res["lac"] = 0
    /\ res["new_measures"] = 0

\* C5 (as claimed): each of the five constructors sets lac to 0 when lac is
\* absent or falsy, and cid to 0 when cid is absent or falsy for the entities
\* that have a cid.
C5_AllConstructorsDefaultLacCid ==
    op \in Constructors =>
        /\ AbsentOrFalsy("lac") => res["lac"] = 0
        /\ (op \in {"Cell", "OCIDCell", "CellBlacklist"} /\ AbsentOrFalsy("cid")) =>
              res["cid"] = 0

\* C5 (amended): Cell and OCIDCell set lac and cid to 0 when absent or falsy;
\* CellArea, OCIDCellArea and CellBlacklist do not default them: lac (and the
\* blacklist's cid) is the supplied value, and null when absent.
C5_CellConstructorsDefaultLacCid ==
    /\ op \in {"Cell", "OCIDCell"} =>
          \A f \in {"lac", "cid"} :
              res[f] = IF AbsentOrFalsy(f) THEN 0 ELSE args[f]
    /\ op \in {"CellArea", "OCIDCellArea"} =>
          res["lac"] = IF Supplied("lac") THEN args["lac"] ELSE None
    /\ op = "CellBlacklist" =>
          \A f \in {"lac", "cid"} :
              res[f] = IF Supplied(f) THEN args[f] ELSE None

C5_Witness ==
    /\ op = "CellArea"
    /\ ~Supplied("lac")
    /\ res["lac"] = None

Timestamps == {"created", "modified", "time"}

C7_RoundTrip ==
    /\ op = "to_cellkey_of_key" =>
          /\ res.status = "ok"
          /\ res.key.kind = "CellKey"
          /\ res.key.vals = SubSeq(args.vals, 1, 5)
          /\ args.kind = "CellKey" => PyEq(res.key, args)
          /\ ToCellKey(AsSource(res.key)) = res
    /\ (op = "to_cellkey_psc_of_key" /\ args.kind = "CellKeyPsc") =>
          /\ res.status = "ok"
          /\ PyEq(res.key, args)

C7_Witness ==
    /\ op = "to_cellkey_of_key"
    /\ args.kind = "CellKeyPsc"
    /\ res.key.vals[4] # res.key.vals[5]
    /\ res.key.vals[5] # args.vals[6]

\* C8: the bounding box of an OCIDCell at (lat, lon) with range r >= 0 is
\* lat -/+ MetersToLatDegrees(r) and lon -/+ MetersToLonDegrees(r, lat); it
\* contains the centre, is symmetric about it, is the centre for r = 0, and
\* away from the equator its longitude offset exceeds its latitude offset.
C8_BoundingBox ==
    op = "bounding_box" =>
        LET dLat == MetersToLatDegrees(args.range)
            dLon == MetersToLonDegrees(args.range, args.lat)
        IN /\ res.min_lat = args.lat - dLat
           /\ res.max_lat = args.lat + dLat
           /\ res.min_lon = args.lon - dLon
           /\ res.max_lon = args.lon + dLon
           /\ res.min_lat <= args.lat /\ args.lat <= res.max_lat
           /\ res.min_lon <= args.lon /\ args.lon <= res.max_lon
           /\ res.max_lat - args.lat = args.lat - res.min_lat
           /\ res.max_lon - args.lon = args.lon - res.min_lon
           /\ args.range = 0 =>
                 /\ res.min_lat = args.lat /\ res.max_lat = args.lat
                 /\ res.min_lon = args.lon /\ res.max_lon = args.lon
           /\ (args.range > 0 /\ args.lat # 0) =>
                 res.max_lon - args.lon > res.max_lat - args.lat

C8_Witness ==
    /\ op = "bounding_box"
    /\ args.lat = Micro(37)
    /\ args.range = 1000
    /\ res.min_lat = 36991017
    /\ res.max_lon - args.lon = 11242

Counters ==
    {"range", "new_measures", "total_measures", "avg_cell_range", "num_cells",
     "count"}

\* C9 (as claimed): whatever the arguments, null and negative values included,
\* the counters and the range of a constructed entity are non-negative
\* integers.
C9_CountersNonNegative ==
    op \in Constructors =>
        \A c \in Counters \cap DOMAIN res : res[c] # None /\ res[c] >= 0

\* C9 (amended): a counter or range omitted from the arguments is a
\* non-negative integer in the constructed entity; a supplied one is stored as
\* supplied, so the entity satisfies the invariant when every supplied
\* counter is a non-negative integer.
C9_CountersNonNegativeUnlessSupplied ==
    op \in Constructors =>
        \A c \in Counters \cap DOMAIN res :
            IF Supplied(c) THEN res[c] = args[c]
            ELSE res[c] # None /\ res[c] >= 0

C9_Witness ==
    /\ op = "CellArea"
    /\ Supplied("range") /\ args["range"] = -1
    /\ ~Supplied("num_cells")
    /\ res["range"] = -1
    /\ res["num_cells"] = 0

====
